---- MODULE Spec2Model ----
(***************************************************************************)
(* Team Service of CTFNote/server: teams, ownership, membership and invite *)
(* codes over a document store.  Two variants of the service are in the    *)
(* repository: services/Team.ts ("plain") and the logging-instrumented one *)
(* (part_000, "logged").  A deployment runs one of them; the variable      *)
(* variant says which.  Every operation is an operator from the store and *)
(* the call's inputs to what the caller receives and the store the call    *)
(* leaves; every service call is one atomic action applying it.            *)
(***************************************************************************)
EXTENDS Integers, Sequences, FiniteSets, TLC

\* ---- bounds of the model ----
NumUsers == 3
MaxTeams == 2
MaxInvites == 1
MaxListLen == 2
MaxTime == 1
MaxUsesBound == 1
\* teams created in the runs in which the store may reject a write
MaxFaultyTeams == 1
\* HTTP requests followed through their handlers
MaxRequests == 2
\* teams created in the runs that follow two calls through their awaits
MaxRaceTeams == 1

Users == 1..NumUsers
\* user records carry the admin flag; registration is out of scope, so the
\* flag is fixed: the first user is the platform admin
Admins == {1}
TeamIDs == 1..MaxTeams
InviteIDs == 1..MaxInvites

Variants == {"plain", "logged"}

\* ---- tokens ----
\* a token is signed for a user (valid), carries a wrong signature over a
\* decodable payload (badsig), or is not a token at all (malformed)
ValidJWT(u) == [kind |-> "valid", id |-> u]
BadSigJWT(u) == [kind |-> "badsig", id |-> u]
MalformedJWT == [kind |-> "malformed", id |-> 0]
NoJWT == [kind |-> "none", id |-> 0]
JWTs == {ValidJWT(u) : u \in Users} \cup {BadSigJWT(u) : u \in Admins} \cup {MalformedJWT}

\* jsonWebToken.verify / verifyJWT: the decoded identity, or a failure
verifyOK(jwt) == jwt.kind = "valid"
isAdmin(u) == u \in Admins

\* ---- strings: team names are sequences of characters ----
LowerChar == [c \in {"a", "b", "A", "B"} |->
                 IF c = "A" THEN "a" ELSE IF c = "B" THEN "b" ELSE c]
toLowerCase(s) == [i \in DOMAIN s |-> LowerChar[s[i]]]
NameInputs == {<<"a">>, <<"A">>, <<"b">>}
NoName == <<>>
HandleInputs == {"", "t"}
SiteInputs == {"", "w"}

\* an absent optional field (maxUses, expiry): JavaScript undefined
Undefined == -1
\* n >= x in JavaScript: false whenever x is undefined (NaN comparison)
jsGE(n, x) == x # Undefined /\ n >= x
\* x ? x : undefined
truthyOrUndefined(x) == IF x # Undefined /\ x # 0 THEN x ELSE Undefined

\* ---- arrays ----
Min(a, b) == IF a < b THEN a ELSE b
Max(a, b) == IF a > b THEN a ELSE b
\* Array.prototype.indexOf, 0-based, -1 when absent
indexOf(s, x) ==
    IF \E i \in DOMAIN s : s[i] = x
    THEN (CHOOSE i \in DOMAIN s : s[i] = x /\ \A j \in DOMAIN s : s[j] = x => i <= j) - 1
    ELSE -1
\* Array.prototype.splice(start, 1): the value it RETURNS, the removed elements
spliceStart(s, start) ==
    IF start < 0 THEN Max(Len(s) + start, 0) ELSE Min(start, Len(s))
splice(s, start) ==
    SubSeq(s, spliceStart(s, start) + 1,
           spliceStart(s, start) + Min(1, Len(s) - spliceStart(s, start)))
Range(s) == {s[i] : i \in DOMAIN s}

VARIABLES variant, teams, userTeams, invites, nextTeamID, nextInviteID, now,
          requests, calls

vars == <<variant, teams, userTeams, invites, nextTeamID, nextInviteID, now,
          requests, calls>>

\* ---- methods of the Team document, references between documents ----
isOwner(team, u) == team.owner = u
inTeam(team, u) == team.owner = u \/ u \in Range(team.members)
teamExists(id) == id \in DOMAIN teams
inviteExists(id) == id \in DOMAIN invites
\* invite.team: the referenced team document, null once the team is deleted
inviteTeamIsNull(code) == ~teamExists(invites[code].team)
\* TeamModel.exists({ name }): an exact match on the stored name
nameExists(n) == \E t \in DOMAIN teams : teams[t].name = n

\* the collection with one more record / one record less
withRecord(f, id, rec) == [x \in DOMAIN f \cup {id} |-> IF x = id THEN rec ELSE f[x]]
withoutRecord(f, id) == [x \in DOMAIN f \ {id} |-> f[x]]

\* what a call gives its caller and the store it leaves
Result(o, v, t, u, i) ==
    [outcome |-> o, view |-> v, teams |-> t, userTeams |-> u, invites |-> i]
Fail(o) == Result(o, "none", teams, userTeams, invites)
Return(v) == Result("ok", v, teams, userTeams, invites)

Init ==
    /\ variant \in Variants
    /\ teams = <<>>
    /\ userTeams = [u \in Users |-> <<>>]
    /\ invites = <<>>
    /\ nextTeamID = 1
    /\ nextInviteID = 1
    /\ now = 0
    /\ requests = <<>>
    /\ calls = [leaveTeam |-> [pc |-> "idle"], updateOwner |-> [pc |-> "idle"]]

\* ---- createTeam ----
\* variant of createTeam that does not add the team to the owner's list
createTeamUnlisted(jwt, teamName) ==
    IF nameExists(toLowerCase(teamName)) THEN Fail("ConflictError")
    ELSE IF ~verifyOK(jwt) THEN Fail("InvalidJWT")
    ELSE Result("ok", "team",
                withRecord(teams, nextTeamID,
                    [name |-> toLowerCase(teamName), owner |-> jwt.id,
                     members |-> <<>>, invites |-> <<>>,
                     twitter |-> "", website |-> ""]),
                userTeams,
                invites)

createTeam(jwt, teamName) ==
    IF nameExists(toLowerCase(teamName)) THEN Fail("ConflictError")
    ELSE IF ~verifyOK(jwt) THEN Fail("InvalidJWT")
    ELSE Result("ok", "team",
                withRecord(teams, nextTeamID,
                    [name |-> toLowerCase(teamName), owner |-> jwt.id,
                     members |-> <<>>, invites |-> <<>>,
                     twitter |-> "", website |-> ""]),
                [userTeams EXCEPT ![jwt.id] = Append(@, nextTeamID)],
                invites)

\* ---- getTeam ----
\* variant of getTeam with the permission test moved before the existence test
getTeamAuthFirst(jwt, teamID) ==
    IF ~verifyOK(jwt) THEN Fail("InvalidJWT")
    ELSE IF ~isAdmin(jwt.id) /\ (~teamExists(teamID) \/ ~inTeam(teams[teamID], jwt.id))
         THEN Fail("UnauthorizedError")
    ELSE IF ~teamExists(teamID) THEN Fail("NotFoundError")
    ELSE Return("team")

getTeam(jwt, teamID) ==
    IF ~verifyOK(jwt) THEN Fail("InvalidJWT")
    ELSE IF ~teamExists(teamID) THEN Fail("NotFoundError")
    ELSE IF ~isAdmin(jwt.id) /\ ~inTeam(teams[teamID], jwt.id) THEN Fail("UnauthorizedError")
    ELSE Return("team")

\* ---- updateTeam ----
updateTeam(jwt, teamID, newDetails) ==
    IF getTeam(jwt, teamID).outcome # "ok" THEN getTeam(jwt, teamID)
    ELSE LET team == teams[teamID]
             named == IF newDetails.name # NoName
                      THEN [team EXCEPT !.name = newDetails.name] ELSE team
             tw == IF newDetails.twitter # ""
                   THEN [named EXCEPT !.twitter = newDetails.twitter] ELSE named
             ws == IF newDetails.website # ""
                   THEN [tw EXCEPT !.website = newDetails.twitter] ELSE tw
         IN  Result("ok", "team", [teams EXCEPT ![teamID] = ws], userTeams, invites)

\* ---- updateOwner ----
\* jsonWebToken.decode does not verify: null for a malformed token
decodeIsNull(jwt) == jwt.kind = "malformed"
\* variant of updateOwner without the test that the caller is the owner
updateOwnerAnyMember(jwt, teamID, newOwnerID) ==
    IF variant = "logged" /\ ~verifyOK(jwt) THEN Fail("InvalidJWT")
    ELSE IF variant = "plain" /\ decodeIsNull(jwt) THEN Fail("TypeError")
    ELSE IF getTeam(jwt, teamID).outcome # "ok" THEN getTeam(jwt, teamID)
    ELSE IF ~isAdmin(jwt.id) /\ ~inTeam(teams[teamID], newOwnerID)
         THEN Fail("BadRequestError")
    ELSE Result("ok", "team", [teams EXCEPT ![teamID].owner = newOwnerID],
                userTeams, invites)

updateOwner(jwt, teamID, newOwnerID) ==
    IF variant = "logged" /\ ~verifyOK(jwt) THEN Fail("InvalidJWT")
    ELSE IF variant = "plain" /\ decodeIsNull(jwt) THEN Fail("TypeError")
    ELSE IF getTeam(jwt, teamID).outcome # "ok" THEN getTeam(jwt, teamID)
    ELSE IF ~isAdmin(jwt.id) /\ ~inTeam(teams[teamID], newOwnerID)
         THEN Fail("BadRequestError")
    ELSE IF ~isAdmin(jwt.id) /\ ~isOwner(teams[teamID], jwt.id)
         THEN Fail("BadRequestError")
    ELSE Result("ok", "team", [teams EXCEPT ![teamID].owner = newOwnerID],
                userTeams, invites)

\* ---- createInvite ----
\* variant of createInvite that asks also an admin to be the owner
createInviteOwnerOnly(jwt, teamID, inviteOptions) ==
    IF ~verifyOK(jwt) THEN Fail("InvalidJWT")
    ELSE IF ~teamExists(teamID) THEN Fail("TypeError")
    ELSE IF ~isOwner(teams[teamID], jwt.id) THEN Fail("BadRequestError")
    ELSE Result("ok", "invite",
                [teams EXCEPT ![teamID].invites = Append(@, nextInviteID)],
                userTeams,
                withRecord(invites, nextInviteID,
                    [team |-> teamID,
                     expiry |-> truthyOrUndefined(inviteOptions.expiry),
                     maxUses |-> truthyOrUndefined(inviteOptions.maxUses),
                     createdByUser |-> jwt.id,
                     uses |-> <<>>]))

createInvite(jwt, teamID, inviteOptions) ==
    IF ~verifyOK(jwt) THEN Fail("InvalidJWT")
    ELSE IF ~teamExists(teamID) THEN Fail("TypeError")
    ELSE IF ~isAdmin(jwt.id) /\ ~isOwner(teams[teamID], jwt.id)
         THEN Fail("BadRequestError")
    ELSE Result("ok", "invite",
                [teams EXCEPT ![teamID].invites = Append(@, nextInviteID)],
                userTeams,
                withRecord(invites, nextInviteID,
                    [team |-> teamID,
                     expiry |-> truthyOrUndefined(inviteOptions.expiry),
                     maxUses |-> truthyOrUndefined(inviteOptions.maxUses),
                     createdByUser |-> jwt.id,
                     uses |-> <<>>]))

\* ---- getInvite ----
\* variant of isExpired with a strict comparison of the use count
isExpiredStrict(invite) ==
    (invite.maxUses # Undefined /\ Len(invite.uses) > invite.maxUses)
    \/ jsGE(now, invite.expiry)

isExpired(invite) ==
    jsGE(Len(invite.uses), invite.maxUses) \/ jsGE(now, invite.expiry)
\* variant of getInvite that shows the full record to every verified caller
getInviteFullToVerified(jwt, inviteID) ==
    IF jwt # NoJWT /\ ~verifyOK(jwt) THEN Fail("InvalidJWT")
    ELSE IF jwt # NoJWT
         THEN Return(IF inviteExists(inviteID) THEN "invite" ELSE "null")
    ELSE IF ~inviteExists(inviteID) THEN Fail("TypeError")
    ELSE IF isExpired(invites[inviteID]) THEN Fail("ExpiredInvite")
    ELSE Return("basicInvite")

getInvite(jwt, inviteID) ==
    IF jwt # NoJWT /\ ~verifyOK(jwt) THEN Fail("InvalidJWT")
    ELSE IF jwt # NoJWT /\ isAdmin(jwt.id)
         THEN Return(IF inviteExists(inviteID) THEN "invite" ELSE "null")
    ELSE IF ~inviteExists(inviteID) THEN Fail("TypeError")
    ELSE IF isExpired(invites[inviteID]) THEN Fail("ExpiredInvite")
    ELSE Return("basicInvite")

\* ---- deleteInvite ----
\* variant of deleteInvite that lets any member of the team delete
deleteInviteByMember(jwt, inviteID) ==
    IF ~verifyOK(jwt) THEN Fail("InvalidJWT")
    ELSE IF ~inviteExists(inviteID) THEN Fail("NotFoundError")
    ELSE IF ~isAdmin(jwt.id) /\ inviteTeamIsNull(inviteID) THEN Fail("TypeError")
    ELSE IF ~isAdmin(jwt.id) /\ ~inTeam(teams[invites[inviteID].team], jwt.id)
         THEN Fail("BadRequestError")
    ELSE Result("ok", "void", teams, userTeams, withoutRecord(invites, inviteID))

deleteInvite(jwt, inviteID) ==
    IF ~verifyOK(jwt) THEN Fail("InvalidJWT")
    ELSE IF ~inviteExists(inviteID) THEN Fail("NotFoundError")
    ELSE IF ~isAdmin(jwt.id) /\ inviteTeamIsNull(inviteID) THEN Fail("TypeError")
    ELSE IF ~isAdmin(jwt.id) /\ ~isOwner(teams[invites[inviteID].team], jwt.id)
         THEN Fail("BadRequestError")
    ELSE Result("ok", "void", teams, userTeams, withoutRecord(invites, inviteID))

\* part_000: the reads are not awaited, invite is still undefined at the check
deleteInviteLogged(jwt, inviteID) ==
    IF ~verifyOK(jwt) THEN Fail("InvalidJWT")
    ELSE Fail("NotFoundError")

\* ---- useInvite ----
\* variant of useInvite that does not record the team in the caller's list
useInviteTeamOnly(jwt, inviteID) ==
    IF ~verifyOK(jwt) THEN Fail("InvalidJWT")
    ELSE IF ~inviteExists(inviteID) THEN Fail("NotFoundError")
    ELSE IF inviteTeamIsNull(inviteID) THEN Fail("TypeError")
    ELSE Result("ok", "team",
                [teams EXCEPT ![invites[inviteID].team].members = Append(@, jwt.id)],
                userTeams,
                [invites EXCEPT ![inviteID].uses = Append(@, jwt.id)])

useInvite(jwt, inviteID) ==
    IF ~verifyOK(jwt) THEN Fail("InvalidJWT")
    ELSE IF ~inviteExists(inviteID) THEN Fail("NotFoundError")
    ELSE IF inviteTeamIsNull(inviteID) THEN Fail("TypeError")
    ELSE Result("ok", "team",
                [teams EXCEPT ![invites[inviteID].team].members = Append(@, jwt.id)],
                [userTeams EXCEPT ![jwt.id] = Append(@, invites[inviteID].team)],
                [invites EXCEPT ![inviteID].uses = Append(@, jwt.id)])

useInviteLogged(jwt, inviteID) ==
    IF ~verifyOK(jwt) THEN Fail("InvalidJWT")
    ELSE Fail("NotFoundError")

\* ---- leaveTeam ----
leaveTeam(jwt, teamID) ==
    IF ~verifyOK(jwt) THEN Fail("InvalidJWT")
    ELSE IF ~teamExists(teamID) THEN Fail("NotFoundError")
    ELSE IF isOwner(teams[teamID], jwt.id) THEN Fail("ConflictError")
    ELSE IF ~inTeam(teams[teamID], jwt.id) THEN Fail("ConflictError")
    ELSE Result("ok", "void",
                [teams EXCEPT ![teamID].members = splice(@, indexOf(@, jwt.id))],
                [userTeams EXCEPT ![jwt.id] = splice(@, indexOf(@, teamID))],
                invites)

leaveTeamLogged(jwt, teamID) ==
    IF ~verifyOK(jwt) THEN Fail("InvalidJWT")
    ELSE Fail("NotFoundError")

\* ---- deleteTeam ----
\* variant of deleteTeam that clears the lists and keeps the team record
deleteTeamKeepsRecord(jwt, teamID) ==
    IF ~verifyOK(jwt) THEN Fail("InvalidJWT")
    ELSE IF ~teamExists(teamID) THEN Fail("TypeError")
    ELSE IF ~isAdmin(jwt.id) /\ ~isOwner(teams[teamID], jwt.id)
         THEN Fail("BadRequestError")
    ELSE Result("ok", "void", teams,
                [u \in Users |->
                    IF u = jwt.id \/ u \in Range(teams[teamID].members)
                    THEN splice(userTeams[u], indexOf(userTeams[u], teamID))
                    ELSE userTeams[u]],
                invites)

deleteTeam(jwt, teamID) ==
    IF ~verifyOK(jwt) THEN Fail("InvalidJWT")
    ELSE IF ~teamExists(teamID) THEN Fail("TypeError")
    ELSE IF ~isAdmin(jwt.id) /\ ~isOwner(teams[teamID], jwt.id)
         THEN Fail("BadRequestError")
    ELSE Result("ok", "void",
                withoutRecord(teams, teamID),
                [u \in Users |->
                    IF u = jwt.id \/ u \in Range(teams[teamID].members)
                    THEN splice(userTeams[u], indexOf(userTeams[u], teamID))
                    ELSE userTeams[u]],
                invites)

\* part_000: user is still undefined when user.isAdmin is read
deleteTeamLogged(jwt, teamID) ==
    IF ~verifyOK(jwt) THEN Fail("InvalidJWT")
    ELSE Fail("TypeError")

\* ---- the deployed variant of the four operations that differ ----
deleteInviteOf(jwt, inviteID) ==
    IF variant = "plain" THEN deleteInvite(jwt, inviteID)
    ELSE deleteInviteLogged(jwt, inviteID)
useInviteOf(jwt, inviteID) ==
    IF variant = "plain" THEN useInvite(jwt, inviteID)
    ELSE useInviteLogged(jwt, inviteID)
leaveTeamOf(jwt, teamID) ==
    IF variant = "plain" THEN leaveTeam(jwt, teamID)
    ELSE leaveTeamLogged(jwt, teamID)
deleteTeamOf(jwt, teamID) ==
    IF variant = "plain" THEN deleteTeam(jwt, teamID)
    ELSE deleteTeamLogged(jwt, teamID)

\* ---- store writes that are rejected ----
\* the collections an operation writes to; a rejected write leaves the
\* stored documents of its collection as they were
WriteTargets == {"team", "user", "invite"}
FailedInputs == {{}} \cup {{w} : w \in WriteTargets}
written(r, failed) ==
    Result(r.outcome, r.view,
           IF "team" \in failed THEN teams ELSE r.teams,
           IF "user" \in failed THEN userTeams ELSE r.userTeams,
           IF "invite" \in failed THEN invites ELSE r.invites)

\* TeamModel.create is awaited with a catch; team.save() and owner.save()
\* are started and not awaited
createTeamSaving(jwt, teamName, failed) ==
    LET r == createTeam(jwt, teamName)
    IN  IF r.outcome # "ok" THEN r
        ELSE IF "team" \in failed THEN Fail("InternalServerError")
        ELSE written(r, failed)

\* await team.save() without a catch: the store's own error reaches the caller
updateOwnerSaving(jwt, teamID, newOwnerID, failed) ==
    LET r == updateOwner(jwt, teamID, newOwnerID)
    IN  IF r.outcome # "ok" THEN r
        ELSE IF "team" \in failed THEN Fail("StoreError")
        ELSE r

\* await invite.save(); await team.save(): neither has a catch
createInviteSaving(jwt, teamID, inviteOptions, failed) ==
    LET r == createInvite(jwt, teamID, inviteOptions)
    IN  IF r.outcome # "ok" THEN r
        ELSE IF "invite" \in failed THEN Fail("StoreError")
        ELSE IF "team" \in failed
             THEN Result("StoreError", "none", teams, userTeams, r.invites)
        ELSE r

\* Promise.all of the three saves is started and not awaited
useInviteSaving(jwt, inviteID, failed) ==
    LET r == useInviteOf(jwt, inviteID)
    IN  IF r.outcome # "ok" THEN r ELSE written(r, failed)

\* team.save(); user.save(): started and not awaited
leaveTeamSaving(jwt, teamID, failed) ==
    LET r == leaveTeamOf(jwt, teamID)
    IN  IF r.outcome # "ok" THEN r ELSE written(r, failed)

\* member.save() is not awaited; await user.save() and await team.delete()
\* have no catch
deleteTeamSaving(jwt, teamID, failed) ==
    LET r == deleteTeamOf(jwt, teamID)
    IN  IF r.outcome # "ok" THEN r
        ELSE IF "user" \in failed THEN Fail("StoreError")
        ELSE IF "team" \in failed
             THEN Result("StoreError", "none", teams, r.userTeams, invites)
        ELSE r

\* ---- the service as a state machine ----
\* the lists of the store stay within the model's bound
Bounded(r) ==
    /\ \A t \in DOMAIN r.teams : Len(r.teams[t].members) <= MaxListLen
    /\ \A u \in Users : Len(r.userTeams[u]) <= MaxListLen
    /\ \A i \in DOMAIN r.invites : Len(r.invites[i].uses) <= MaxListLen
    /\ DOMAIN r.teams \subseteq TeamIDs
    /\ DOMAIN r.invites \subseteq InviteIDs

Apply(r) ==
    /\ Bounded(r)
    /\ teams' = r.teams
    /\ userTeams' = r.userTeams
    /\ invites' = r.invites
    /\ UNCHANGED <<variant, now, requests, calls>>

CreateTeam ==
    \E jwt \in JWTs, n \in NameInputs :
        /\ Apply(createTeam(jwt, n))
        /\ nextTeamID' = IF createTeam(jwt, n).outcome = "ok"
                         THEN nextTeamID + 1 ELSE nextTeamID
        /\ UNCHANGED nextInviteID

GetTeam ==
    \E jwt \in JWTs, t \in TeamIDs :
        Apply(getTeam(jwt, t)) /\ UNCHANGED <<nextTeamID, nextInviteID>>

PatchInputs ==
    {[name |-> n, twitter |-> "", website |-> ""] : n \in NameInputs}
    \cup {[name |-> NoName, twitter |-> h, website |-> w] :
             h \in HandleInputs, w \in SiteInputs}

UpdateTeam ==
    \E jwt \in JWTs, t \in TeamIDs, p \in PatchInputs :
        Apply(updateTeam(jwt, t, p)) /\ UNCHANGED <<nextTeamID, nextInviteID>>

UpdateOwner ==
    \E jwt \in JWTs, t \in TeamIDs, n \in Users :
        Apply(updateOwner(jwt, t, n)) /\ UNCHANGED <<nextTeamID, nextInviteID>>

InviteOptionInputs ==
    {[expiry |-> e, maxUses |-> m] :
        e \in {Undefined} \cup 1..MaxTime, m \in {Undefined} \cup 0..MaxUsesBound}

\* a request body without options
NoOptions == [expiry |-> Undefined, maxUses |-> Undefined]

CreateInviteWith(options) ==
    \E jwt \in JWTs, t \in TeamIDs, o \in options :
        /\ Apply(createInvite(jwt, t, o))
        /\ nextInviteID' = IF createInvite(jwt, t, o).outcome = "ok"
                           THEN nextInviteID + 1 ELSE nextInviteID
        /\ UNCHANGED nextTeamID

CreateInvite == CreateInviteWith(InviteOptionInputs)
CreateOpenInvite == CreateInviteWith({NoOptions})

GetInvite ==
    \E jwt \in JWTs \cup {NoJWT}, i \in InviteIDs :
        Apply(getInvite(jwt, i)) /\ UNCHANGED <<nextTeamID, nextInviteID>>

DeleteInvite ==
    /\ variant = "plain"
    /\ \E jwt \in JWTs, i \in InviteIDs :
        Apply(deleteInvite(jwt, i)) /\ UNCHANGED <<nextTeamID, nextInviteID>>

DeleteInviteLogged ==
    /\ variant = "logged"
    /\ \E jwt \in JWTs, i \in InviteIDs :
        Apply(deleteInviteLogged(jwt, i)) /\ UNCHANGED <<nextTeamID, nextInviteID>>

UseInvite ==
    /\ variant = "plain"
    /\ \E jwt \in JWTs, i \in InviteIDs :
        Apply(useInvite(jwt, i)) /\ UNCHANGED <<nextTeamID, nextInviteID>>

UseInviteLogged ==
    /\ variant = "logged"
    /\ \E jwt \in JWTs, i \in InviteIDs :
        Apply(useInviteLogged(jwt, i)) /\ UNCHANGED <<nextTeamID, nextInviteID>>

LeaveTeam ==
    /\ variant = "plain"
    /\ \E jwt \in JWTs, t \in TeamIDs :
        Apply(leaveTeam(jwt, t)) /\ UNCHANGED <<nextTeamID, nextInviteID>>

LeaveTeamLogged ==
    /\ variant = "logged"
    /\ \E jwt \in JWTs, t \in TeamIDs :
        Apply(leaveTeamLogged(jwt, t)) /\ UNCHANGED <<nextTeamID, nextInviteID>>

DeleteTeam ==
    /\ variant = "plain"
    /\ \E jwt \in JWTs, t \in TeamIDs :
        Apply(deleteTeam(jwt, t)) /\ UNCHANGED <<nextTeamID, nextInviteID>>

DeleteTeamLogged ==
    /\ variant = "logged"
    /\ \E jwt \in JWTs, t \in TeamIDs :
        Apply(deleteTeamLogged(jwt, t)) /\ UNCHANGED <<nextTeamID, nextInviteID>>

\* new Date(): the clock only moves forward
Tick ==
    /\ now < MaxTime
    /\ now' = now + 1
    /\ UNCHANGED <<variant, teams, userTeams, invites, nextTeamID, nextInviteID,
                   requests, calls>>

\* membership and ownership; invites are created without limits, which no
\* operation of this specification reads
Next ==
    \/ CreateTeam
    \/ GetTeam
    \/ UpdateOwner
    \/ CreateOpenInvite
    \/ DeleteInvite
    \/ DeleteInviteLogged
    \/ UseInvite
    \/ UseInviteLogged
    \/ LeaveTeam
    \/ LeaveTeamLogged
    \/ DeleteTeam
    \/ DeleteTeamLogged

Spec == Init /\ [][Next]_vars

\* the life of an invite: limits, the clock, redemption, deletion
NextInvites ==
    \/ CreateTeam
    \/ CreateInvite
    \/ GetInvite
    \/ UseInvite
    \/ UseInviteLogged
    \/ DeleteInvite
    \/ DeleteInviteLogged
    \/ DeleteTeam
    \/ DeleteTeamLogged
    \/ Tick

SpecInvites == Init /\ [][NextInvites]_vars

\* the operations with writes that the store may reject; a call whose
\* token is refused issues no write, so the callers here are verified
WritingJWTs == {ValidJWT(u) : u \in Users}
FaultyTeamIDs == 1..MaxFaultyTeams
CreateTeamSaving ==
    \E jwt \in WritingJWTs, n \in NameInputs, failed \in FailedInputs :
        /\ nextTeamID <= MaxFaultyTeams
        /\ Apply(createTeamSaving(jwt, n, failed))
        /\ nextTeamID' = IF createTeamSaving(jwt, n, failed).outcome = "ok"
                         THEN nextTeamID + 1 ELSE nextTeamID
        /\ UNCHANGED nextInviteID

UpdateOwnerSaving ==
    \E jwt \in WritingJWTs, t \in FaultyTeamIDs, n \in Users, failed \in FailedInputs :
        Apply(updateOwnerSaving(jwt, t, n, failed))
        /\ UNCHANGED <<nextTeamID, nextInviteID>>

CreateInviteSaving ==
    \E jwt \in WritingJWTs, t \in FaultyTeamIDs, failed \in FailedInputs :
        /\ Apply(createInviteSaving(jwt, t, NoOptions, failed))
        /\ nextInviteID' =
              IF createInviteSaving(jwt, t, NoOptions, failed).invites # invites
              THEN nextInviteID + 1 ELSE nextInviteID
        /\ UNCHANGED nextTeamID

UseInviteSaving ==
    \E jwt \in WritingJWTs, i \in InviteIDs, failed \in FailedInputs :
        Apply(useInviteSaving(jwt, i, failed))
        /\ UNCHANGED <<nextTeamID, nextInviteID>>

LeaveTeamSaving ==
    \E jwt \in WritingJWTs, t \in FaultyTeamIDs, failed \in FailedInputs :
        Apply(leaveTeamSaving(jwt, t, failed))
        /\ UNCHANGED <<nextTeamID, nextInviteID>>

DeleteTeamSaving ==
    \E jwt \in WritingJWTs, t \in FaultyTeamIDs, failed \in FailedInputs :
        Apply(deleteTeamSaving(jwt, t, failed))
        /\ UNCHANGED <<nextTeamID, nextInviteID>>

NextWrites ==
    \/ CreateTeamSaving
    \/ UpdateOwnerSaving
    \/ CreateInviteSaving
    \/ UseInviteSaving
    \/ LeaveTeamSaving
    \/ DeleteTeamSaving

SpecWrites == Init /\ [][NextWrites]_vars

\* ---- HTTP handlers (api/v1/user.ts, the CTF routes of part_001) ----
\* requests is the list of the requests received, each with what its handler
\* has done so far: the errors given to next(), the responses sent, whether
\* the service method was invoked, and what the handler itself raised
Handlers ==
    {"updateDetails", "getDetails",
     "createCTF", "listCTFs", "getCTF", "archiveCTF", "unarchiveCTF"}
\* declared async: what the body throws rejects the promise it returns
AsyncHandlers == {"updateDetails", "getDetails"}

\* the synchronous part of a handler.  Without the header it calls
\* next(new UnauthorizedError(...)) and goes on, since there is no return:
\* evaluating req.headers.authorization.slice(7), an argument of the service
\* call, throws a TypeError before the service method is entered
handle(h, hasAuthorization) ==
    IF ~hasAuthorization
    THEN [handler |-> h, authorization |-> FALSE,
          passed |-> <<"UnauthorizedError">>, responses |-> 0,
          invoked |-> FALSE,
          raised |-> IF h \in AsyncHandlers THEN "rejected TypeError"
                     ELSE "thrown TypeError",
          pc |-> "done"]
    ELSE [handler |-> h, authorization |-> TRUE,
          passed |-> <<>>, responses |-> 0, invoked |-> TRUE,
          raised |-> "none", pc |-> "pending"]

\* .then(...): every handler sends the response, except that getDetails
\* gives NotFoundError to next() when the service found no user
resolved(r, found) ==
    IF r.handler = "getDetails" /\ ~found
    THEN [r EXCEPT !.passed = Append(@, "NotFoundError"), !.pc = "done"]
    ELSE [r EXCEPT !.responses = @ + 1, !.pc = "done"]
\* .catch((err) => next(err))
rejected(r) == [r EXCEPT !.passed = Append(@, "ServiceError"), !.pc = "done"]

UnchangedStore ==
    UNCHANGED <<variant, teams, userTeams, invites, nextTeamID, nextInviteID, now,
                calls>>

Receive ==
    /\ Len(requests) < MaxRequests
    /\ \E h \in Handlers, hasAuthorization \in BOOLEAN :
          requests' = Append(requests, handle(h, hasAuthorization))
    /\ UnchangedStore

ServiceResolves ==
    /\ \E k \in DOMAIN requests, found \in BOOLEAN :
          /\ requests[k].pc = "pending"
          /\ requests' = [requests EXCEPT ![k] = resolved(@, found)]
    /\ UnchangedStore

ServiceRejects ==
    /\ \E k \in DOMAIN requests :
          /\ requests[k].pc = "pending"
          /\ requests' = [requests EXCEPT ![k] = rejected(@)]
    /\ UnchangedStore

NextHTTP ==
    \/ Receive
    \/ ServiceResolves
    \/ ServiceRejects

SpecHTTP == Init /\ [][NextHTTP]_vars

\* ---- two calls in flight: leaveTeam and updateOwner, await by await ----
\* calls holds, for one leaveTeam call and one updateOwner call, the
\* documents the call read and how far it has come.  A call reads with its
\* awaits (findById, getTeam), and after the last of them tests and changes
\* its own copies and saves them; nothing orders the two calls between a
\* read and the save that follows it
RaceTeamIDs == 1..MaxRaceTeams

\* document.save(): the stored document becomes the copy the call holds
save(store, id, doc) ==
    IF id \in DOMAIN store THEN [store EXCEPT ![id] = doc] ELSE store

\* leaveTeam up to its last await: the user and the team as read
leaveTeamRead(jwt, teamID) ==
    IF ~verifyOK(jwt)
    THEN [pc |-> "done", jwt |-> jwt, teamID |-> teamID, outcome |-> "InvalidJWT"]
    ELSE IF ~teamExists(teamID)
    THEN [pc |-> "done", jwt |-> jwt, teamID |-> teamID, outcome |-> "NotFoundError"]
    ELSE [pc |-> "read", jwt |-> jwt, teamID |-> teamID, outcome |-> "pending",
          team |-> teams[teamID], userTeams |-> userTeams[jwt.id]]

\* variant of leaveTeamWrite that tests the stored team, not the copy read
leaveTeamWriteRevalidated(c) ==
    IF ~teamExists(c.teamID) THEN Fail("NotFoundError")
    ELSE IF isOwner(teams[c.teamID], c.jwt.id) THEN Fail("ConflictError")
    ELSE IF ~inTeam(teams[c.teamID], c.jwt.id) THEN Fail("ConflictError")
    ELSE Result("ok", "void",
                save(teams, c.teamID,
                     [teams[c.teamID] EXCEPT !.members = splice(@, indexOf(@, c.jwt.id))]),
                [userTeams EXCEPT ![c.jwt.id] =
                    splice(userTeams[c.jwt.id], indexOf(userTeams[c.jwt.id], c.teamID))],
                invites)

\* leaveTeam after its last await: the tests and the changes are made on the
\* copies read, then team.save() and user.save()
leaveTeamWrite(c) ==
    IF isOwner(c.team, c.jwt.id) THEN Fail("ConflictError")
    ELSE IF ~inTeam(c.team, c.jwt.id) THEN Fail("ConflictError")
    ELSE Result("ok", "void",
                save(teams, c.teamID,
                     [c.team EXCEPT !.members = splice(@, indexOf(@, c.jwt.id))]),
                [userTeams EXCEPT ![c.jwt.id] =
                    splice(c.userTeams, indexOf(c.userTeams, c.teamID))],
                invites)

\* updateOwner up to the end of its Promise.all: the team as getTeam read it
updateOwnerRead(jwt, teamID, newOwnerID) ==
    IF updateOwner(jwt, teamID, newOwnerID).outcome
          \in {"InvalidJWT", "TypeError", "NotFoundError", "UnauthorizedError"}
    THEN [pc |-> "done", jwt |-> jwt, teamID |-> teamID, newOwnerID |-> newOwnerID,
          outcome |-> updateOwner(jwt, teamID, newOwnerID).outcome]
    ELSE [pc |-> "read", jwt |-> jwt, teamID |-> teamID, newOwnerID |-> newOwnerID,
          outcome |-> "pending", team |-> teams[teamID]]

\* updateOwner after its reads: the tests on the copy, team.owner = newOwner,
\* await team.save()
updateOwnerWrite(c) ==
    IF ~isAdmin(c.jwt.id) /\ ~inTeam(c.team, c.newOwnerID) THEN Fail("BadRequestError")
    ELSE IF ~isAdmin(c.jwt.id) /\ ~isOwner(c.team, c.jwt.id) THEN Fail("BadRequestError")
    ELSE Result("ok", "team",
                save(teams, c.teamID, [c.team EXCEPT !.owner = c.newOwnerID]),
                userTeams, invites)

ApplyWrite(r) ==
    /\ Bounded(r)
    /\ teams' = r.teams
    /\ userTeams' = r.userTeams
    /\ invites' = r.invites
    /\ UNCHANGED <<variant, now, requests, nextTeamID, nextInviteID>>

CreateRaceTeam == nextTeamID <= MaxRaceTeams /\ CreateTeam

LeaveTeamReads ==
    /\ variant = "plain"
    /\ calls.leaveTeam.pc = "idle"
    /\ \E jwt \in WritingJWTs, t \in RaceTeamIDs :
          calls' = [calls EXCEPT !.leaveTeam = leaveTeamRead(jwt, t)]
    /\ UNCHANGED <<variant, teams, userTeams, invites, nextTeamID, nextInviteID,
                   now, requests>>

LeaveTeamWrites ==
    /\ calls.leaveTeam.pc = "read"
    /\ ApplyWrite(leaveTeamWrite(calls.leaveTeam))
    /\ calls' = [calls EXCEPT
                   !.leaveTeam.pc = "done",
                   !.leaveTeam.outcome = leaveTeamWrite(calls.leaveTeam).outcome]

UpdateOwnerReads ==
    /\ calls.updateOwner.pc = "idle"
    /\ \E jwt \in WritingJWTs, t \in RaceTeamIDs, n \in Users :
          calls' = [calls EXCEPT !.updateOwner = updateOwnerRead(jwt, t, n)]
    /\ UNCHANGED <<variant, teams, userTeams, invites, nextTeamID, nextInviteID,
                   now, requests>>

UpdateOwnerWrites ==
    /\ calls.updateOwner.pc = "read"
    /\ ApplyWrite(updateOwnerWrite(calls.updateOwner))
    /\ calls' = [calls EXCEPT
                   !.updateOwner.pc = "done",
                   !.updateOwner.outcome = updateOwnerWrite(calls.updateOwner).outcome]

NextRace ==
    \/ CreateRaceTeam
    \/ CreateOpenInvite
    \/ UseInvite
    \/ LeaveTeamReads
    \/ LeaveTeamWrites
    \/ UpdateOwnerReads
    \/ UpdateOwnerWrites

SpecRace == Init /\ [][NextRace]_vars

\* team names and details
NextNames ==
    \/ CreateTeam
    \/ GetTeam
    \/ UpdateTeam

SpecNames == Init /\ [][NextNames]_vars

(***************************************************************************)
(* Properties.  A property of an operation is stated over every call that  *)
(* can be made in a reachable state: the operation's operator gives what   *)
(* the caller receives and the store the call leaves.                      *)
(***************************************************************************)
NonAdminJWTs == {ValidJWT(u) : u \in Users \ Admins}
ValidJWTs == {ValidJWT(u) : u \in Users}
SameStore(r) ==
    r.teams = teams /\ r.userTeams = userTeams /\ r.invites = invites
lowerEqual(a, b) == toLowerCase(a) = toLowerCase(b)
\* the outcomes that refuse a caller for lack of rights
PermissionErrors == {"UnauthorizedError", "BadRequestError"}
\* the codes a caller can present: those issued and one that never is
InviteCodes == InviteIDs \cup {MaxInvites + 1}

\* C1: in every reachable state an invite that has a max-use count has at
\* most maxUses recorded redemptions.
C1_RedemptionsWithinMaxUses ==
    \A i \in DOMAIN invites :
        invites[i].maxUses # Undefined => Len(invites[i].uses) <= invites[i].maxUses

\* C2: after a successful deleteTeam(T) no user's membership list holds T,
\* and every list keeps every other team it had.
C2_DeleteTeamClearsEveryList ==
    \A jwt \in JWTs, t \in TeamIDs :
        LET r == deleteTeamOf(jwt, t)
        IN  r.outcome = "ok" =>
              \A u \in Users :
                 /\ t \notin Range(r.userTeams[u])
                 /\ Range(userTeams[u]) \ {t} \subseteq Range(r.userTeams[u])

\* C3: a successful leaveTeam(U, T) removes exactly U from T's members and
\* exactly T from U's membership list.
C3_LeaveTeamRemovesExactlyCaller ==
    \A jwt \in JWTs, t \in TeamIDs :
        LET r == leaveTeamOf(jwt, t)
        IN  r.outcome = "ok" =>
              /\ jwt.id \notin Range(r.teams[t].members)
              /\ Range(r.teams[t].members) = Range(teams[t].members) \ {jwt.id}
              /\ t \notin Range(r.userTeams[jwt.id])
              /\ Range(r.userTeams[jwt.id]) = Range(userTeams[jwt.id]) \ {t}

\* C4: for a non-admin caller updateOwner changes T's owner only if the new
\* owner is already in T's member list and the caller is T's current owner;
\* it succeeds only if the new owner is in the team (the owner counts) and the
\* caller is the owner, and when it fails the store is unchanged.
C4_UpdateOwnerNeedsOwnerAndMember ==
    \A jwt \in NonAdminJWTs, t \in TeamIDs, n \in Users :
        LET r == updateOwner(jwt, t, n)
        IN  /\ r.outcome = "ok" =>
                 /\ teamExists(t)
                 /\ teams[t].owner = jwt.id
                 /\ n \in Range(teams[t].members) \/ n = teams[t].owner
                 /\ r.teams[t].owner = n
            /\ (teamExists(t) /\ r.teams[t].owner # teams[t].owner) =>
                 n \in Range(teams[t].members) /\ teams[t].owner = jwt.id
            /\ r.outcome # "ok" => SameStore(r)
            /\ (teamExists(t) /\ (teams[t].owner # jwt.id
                                   \/ (n \notin Range(teams[t].members) /\ n # teams[t].owner)))
                 => r.outcome # "ok"

\* a non-admin owner can hand the team to a member, and a member who is not
\* the owner is refused
C4_Witness ==
    \E jwt \in NonAdminJWTs, other \in NonAdminJWTs, t \in DOMAIN teams :
        /\ teams[t].owner = jwt.id
        /\ other.id # jwt.id
        /\ other.id \in Range(teams[t].members)
        /\ updateOwner(jwt, t, other.id).outcome = "ok"
        /\ updateOwner(jwt, t, other.id).teams[t].owner = other.id
        /\ updateOwner(other, t, other.id).outcome = "BadRequestError"

\* C5: getTeam on an existing team succeeds exactly for an admin, a member
\* or the owner, every other caller gets the authorization error, and an
\* absent team gives NotFoundError.
C5_GetTeamAuthorization ==
    \A jwt \in ValidJWTs, t \in TeamIDs :
        LET r == getTeam(jwt, t)
        IN  IF teamExists(t)
            THEN IF \/ jwt.id \in Admins
                    \/ jwt.id \in Range(teams[t].members)
                    \/ jwt.id = teams[t].owner
                 THEN r.outcome = "ok" /\ r.view = "team"
                 ELSE r.outcome = "UnauthorizedError"
            ELSE r.outcome = "NotFoundError"

\* a team right after createTeam (no members): its owner and the admin read
\* it, another user is refused, and a non-member asking for an absent team
\* gets NotFoundError
C5_Witness ==
    \E t \in DOMAIN teams, t2 \in TeamIDs \ DOMAIN teams, u \in Users \ Admins :
        /\ teams[t].members = <<>>
        /\ teams[t].owner \notin Admins
        /\ teams[t].owner # u
        /\ getTeam(ValidJWT(teams[t].owner), t).outcome = "ok"
        /\ getTeam(ValidJWT(u), t).outcome = "UnauthorizedError"
        /\ getTeam(ValidJWT(u), t2).outcome = "NotFoundError"
        /\ \A a \in Admins : getTeam(ValidJWT(a), t).outcome = "ok"

\* C6: a caller who is neither admin nor T's current owner never succeeds at
\* createInvite on T, deleteInvite on an invite of T, or deleteTeam on T, and
\* the failed call leaves every team and invite as it was.
C6_OwnerExclusivity ==
    \A jwt \in NonAdminJWTs :
        /\ \A t \in DOMAIN teams :
              teams[t].owner # jwt.id =>
                 /\ \A o \in InviteOptionInputs :
                       createInvite(jwt, t, o).outcome # "ok"
                       /\ SameStore(createInvite(jwt, t, o))
                 /\ deleteTeamOf(jwt, t).outcome # "ok"
                 /\ SameStore(deleteTeamOf(jwt, t))
        /\ \A i \in DOMAIN invites :
              (invites[i].team \notin DOMAIN teams
               \/ teams[invites[i].team].owner # jwt.id) =>
                 /\ deleteInviteOf(jwt, i).outcome # "ok"
                 /\ SameStore(deleteInviteOf(jwt, i))

\* a member who is not the owner is refused all three, with the invite's
\* team still there
C6_Witness ==
    \E jwt \in NonAdminJWTs, i \in DOMAIN invites :
        /\ variant = "plain"
        /\ invites[i].team \in DOMAIN teams
        /\ teams[invites[i].team].owner # jwt.id
        /\ jwt.id \in Range(teams[invites[i].team].members)
        /\ createInvite(jwt, invites[i].team, NoOptions).outcome = "BadRequestError"
        /\ deleteInvite(jwt, i).outcome = "BadRequestError"
        /\ deleteTeam(jwt, invites[i].team).outcome = "BadRequestError"

\* C7: createTeam(name) fails with ConflictError whenever a team whose name
\* equals name case-insensitively exists, and then changes nothing.
C7_CreateTeamConflict ==
    \A jwt \in JWTs, n \in NameInputs :
        (\E t \in DOMAIN teams : lowerEqual(teams[t].name, n)) =>
            createTeam(jwt, n).outcome = "ConflictError" /\ SameStore(createTeam(jwt, n))

\* C8: no two existing teams have names that are equal case-insensitively.
C8_NamesUniqueIgnoringCase ==
    \A t1 \in DOMAIN teams, t2 \in DOMAIN teams :
        t1 # t2 => ~lowerEqual(teams[t1].name, teams[t2].name)

\* C9: leaveTeam fails with ConflictError for T's owner and for a caller who
\* is not a member of T, with NotFoundError when T does not exist, and in
\* all three cases changes nothing.
C9_LeaveTeamRejections ==
    \A jwt \in ValidJWTs, t \in TeamIDs :
        LET r == leaveTeamOf(jwt, t)
        IN  /\ ~teamExists(t) => r.outcome = "NotFoundError" /\ SameStore(r)
            /\ (teamExists(t) /\ teams[t].owner = jwt.id) =>
                  r.outcome = "ConflictError" /\ SameStore(r)
            /\ (teamExists(t) /\ jwt.id \notin Range(teams[t].members)) =>
                  r.outcome = "ConflictError" /\ SameStore(r)

\* C10: for a non-admin or anonymous caller getInvite of an existing invite
\* fails with the expired-invite error when the number of uses is at least
\* maxUses or the time is at or past the expiry, and succeeds otherwise.
C10_GetInviteExpiry ==
    \A jwt \in NonAdminJWTs \cup {NoJWT}, i \in DOMAIN invites :
        IF \/ invites[i].maxUses # Undefined /\ Len(invites[i].uses) >= invites[i].maxUses
           \/ invites[i].expiry # Undefined /\ now >= invites[i].expiry
        THEN getInvite(jwt, i).outcome = "ExpiredInvite"
        ELSE getInvite(jwt, i).outcome = "ok" /\ getInvite(jwt, i).view = "basicInvite"

\* an invite used up exactly (uses = maxUses) and not past its expiry is
\* refused to an anonymous caller, and a fresh one is shown
C10_Witness ==
    \E i \in DOMAIN invites :
        /\ invites[i].maxUses # Undefined
        /\ Len(invites[i].uses) = invites[i].maxUses
        /\ invites[i].expiry # Undefined
        /\ now < invites[i].expiry
        /\ getInvite(NoJWT, i).outcome = "ExpiredInvite"
        /\ \A u \in Users \ Admins : getInvite(ValidJWT(u), i).outcome = "ExpiredInvite"

\* C11: getInvite of an existing invite gives an admin the full record, also
\* when the invite is expired or used up; a non-admin or anonymous caller
\* gets the basic view or an error, never the full record.
C11_FullInviteOnlyToAdmin ==
    \A i \in DOMAIN invites :
        /\ \A a \in Admins :
              getInvite(ValidJWT(a), i).outcome = "ok"
              /\ getInvite(ValidJWT(a), i).view = "invite"
        /\ \A jwt \in NonAdminJWTs \cup {NoJWT} :
              /\ getInvite(jwt, i).view # "invite"
              /\ getInvite(jwt, i).outcome = "ok" => getInvite(jwt, i).view = "basicInvite"

\* an invite that has been redeemed and is used up: the admin still reads
\* the full record, a non-admin and an anonymous caller are refused
C11_Witness ==
    \E i \in DOMAIN invites, u \in Users \ Admins :
        /\ isExpired(invites[i])
        /\ Len(invites[i].uses) > 0
        /\ \A a \in Admins : getInvite(ValidJWT(a), i).view = "invite"
        /\ getInvite(ValidJWT(u), i).outcome = "ExpiredInvite"
        /\ getInvite(NoJWT, i).view = "none"

\* C12: a step in which non-admin owner A hands team T to another user B
\* leaves B as T's owner, and in the state it leaves, as in every later
\* state in which A is not T's owner, each updateOwner on T by A fails and
\* changes nothing, so T's owner stays B.
C12_TransferThenOldOwnerRefused ==
    /\ [](\A jwt \in NonAdminJWTs, t \in DOMAIN teams, n \in Users :
             teams[t].owner # jwt.id =>
                /\ updateOwner(jwt, t, n).outcome # "ok"
                /\ SameStore(updateOwner(jwt, t, n)))
    /\ [][teams' # teams =>
           \A jwt \in NonAdminJWTs, t \in DOMAIN teams, b \in Users :
              (/\ b # jwt.id
               /\ teams[t].owner = jwt.id
               /\ updateOwner(jwt, t, b).outcome = "ok"
               /\ teams' = updateOwner(jwt, t, b).teams)
              => /\ teams'[t].owner = b
                 /\ \A n \in Users :
                       /\ (updateOwner(jwt, t, n).outcome # "ok")'
                       /\ SameStore(updateOwner(jwt, t, n))'
       ]_vars

\* a team whose owner B is one of its members, as a transfer leaves it, and
\* a non-admin A who has the team in the membership list without being in
\* its member list, as its creator does: A's transfers to B, to A and to
\* anyone else are refused
C12_Witness ==
    \E a \in Users \ Admins, t \in DOMAIN teams :
        /\ teams[t].owner \notin Admins \cup {a}
        /\ teams[t].owner \in Range(teams[t].members)
        /\ t \in Range(userTeams[a])
        /\ a \notin Range(teams[t].members)
        /\ \A n \in Users : updateOwner(ValidJWT(a), t, n).outcome = "UnauthorizedError"

\* C13: a successful useInvite(U, code) appends U to the member list of the
\* invite's team, that team to U's membership list and U to the invite's
\* uses, and changes nothing else: the team's owner, its other members and
\* every other team, user and invite stay as they were; an absent code
\* gives NotFoundError and changes nothing.
C13_UseInviteEffect ==
    \A jwt \in ValidJWTs, i \in InviteCodes :
        LET r == useInviteOf(jwt, i)
        IN  /\ r.outcome = "ok" =>
                 LET t == invites[i].team
                 IN  /\ r.teams = [teams EXCEPT ![t].members = Append(@, jwt.id)]
                     /\ r.teams[t].owner = teams[t].owner
                     /\ r.userTeams = [userTeams EXCEPT ![jwt.id] = Append(@, t)]
                     /\ r.invites = [invites EXCEPT ![i].uses = Append(@, jwt.id)]
            /\ ~inviteExists(i) => r.outcome = "NotFoundError" /\ SameStore(r)

\* the spec's scenario, reached: a team of non-admin A whose only member B
\* joined through the invite, which lists B as its one use; a further
\* redemption by a third user would succeed, and an absent code is refused
C13_Witness ==
    \E i \in DOMAIN invites, b \in Users, c \in Users :
        /\ variant = "plain"
        /\ invites[i].team \in DOMAIN teams
        /\ teams[invites[i].team].owner \notin Admins \cup {b, c}
        /\ teams[invites[i].team].members = <<b>>
        /\ invites[i].uses = <<b>>
        /\ userTeams[b] = <<invites[i].team>>
        /\ c # b
        /\ useInvite(ValidJWT(c), i).outcome = "ok"
        /\ \E j \in InviteCodes \ DOMAIN invites :
              useInvite(ValidJWT(c), j).outcome = "NotFoundError"

\* C14: for an admin who is neither owner nor member of an existing team T,
\* getTeam, updateTeam, updateOwner and createInvite on T succeed, and
\* deleteInvite on an invite of T and deleteTeam on T never fail with a
\* permission error (and succeed where the operation awaits its reads).
C14_AdminPassesTeamChecks ==
    \A a \in Admins, t \in DOMAIN teams :
        (teams[t].owner # a /\ a \notin Range(teams[t].members)) =>
            /\ getTeam(ValidJWT(a), t).outcome = "ok"
            /\ \A d \in PatchInputs : updateTeam(ValidJWT(a), t, d).outcome = "ok"
            /\ \A n \in Users : updateOwner(ValidJWT(a), t, n).outcome = "ok"
            /\ \A o \in InviteOptionInputs : createInvite(ValidJWT(a), t, o).outcome = "ok"
            /\ deleteTeamOf(ValidJWT(a), t).outcome \notin PermissionErrors
            /\ variant = "plain" => deleteTeamOf(ValidJWT(a), t).outcome = "ok"
            /\ \A i \in DOMAIN invites :
                  invites[i].team = t =>
                     /\ deleteInviteOf(ValidJWT(a), i).outcome \notin PermissionErrors
                     /\ variant = "plain" => deleteInviteOf(ValidJWT(a), i).outcome = "ok"

\* a team with an invite, a non-admin owner and a non-admin member: the
\* member is refused createInvite, deleteInvite and deleteTeam, the admin,
\* who is neither owner nor member, is not
C14_Witness ==
    \E a \in Admins, i \in DOMAIN invites, u \in Users \ Admins :
        /\ variant = "plain"
        /\ invites[i].team \in DOMAIN teams
        /\ teams[invites[i].team].owner \notin {a, u}
        /\ a \notin Range(teams[invites[i].team].members)
        /\ u \in Range(teams[invites[i].team].members)
        /\ createInvite(ValidJWT(u), invites[i].team, NoOptions).outcome \in PermissionErrors
        /\ deleteTeam(ValidJWT(u), invites[i].team).outcome \in PermissionErrors
        /\ deleteInvite(ValidJWT(u), i).outcome \in PermissionErrors
        /\ createInvite(ValidJWT(a), invites[i].team, NoOptions).outcome = "ok"
        /\ deleteTeam(ValidJWT(a), invites[i].team).outcome = "ok"
        /\ deleteInvite(ValidJWT(a), i).outcome = "ok"
        /\ updateOwner(ValidJWT(a), invites[i].team, u).outcome = "ok"

\* C15: every operation given an invalid token fails with the token error,
\* whatever the store holds, and changes nothing.
C15_TokenVerifiedFirst ==
    \A jwt \in JWTs \ ValidJWTs :
        /\ \A n \in NameInputs :
              createTeam(jwt, n).outcome = "InvalidJWT" /\ SameStore(createTeam(jwt, n))
        /\ \A t \in TeamIDs :
              /\ getTeam(jwt, t).outcome = "InvalidJWT"
              /\ \A d \in PatchInputs : updateTeam(jwt, t, d).outcome = "InvalidJWT"
              /\ \A n \in Users : updateOwner(jwt, t, n).outcome = "InvalidJWT"
              /\ \A o \in InviteOptionInputs : createInvite(jwt, t, o).outcome = "InvalidJWT"
              /\ leaveTeamOf(jwt, t).outcome = "InvalidJWT"
              /\ deleteTeamOf(jwt, t).outcome = "InvalidJWT"
        /\ \A i \in InviteCodes :
              /\ getInvite(jwt, i).outcome = "InvalidJWT"
              /\ deleteInviteOf(jwt, i).outcome = "InvalidJWT"
              /\ useInviteOf(jwt, i).outcome = "InvalidJWT"

\* C16: an operation one of whose writes is rejected by the store fails with
\* InternalServerError; in particular it never reports success.
C16_FailedWriteIsInternalServerError ==
    \A jwt \in ValidJWTs :
        /\ \A n \in NameInputs, w \in {"team", "user"} :
              createTeam(jwt, n).outcome = "ok" =>
                 createTeamSaving(jwt, n, {w}).outcome = "InternalServerError"
        /\ \A t \in TeamIDs :
              /\ \A n \in Users :
                    updateOwner(jwt, t, n).outcome = "ok" =>
                       updateOwnerSaving(jwt, t, n, {"team"}).outcome = "InternalServerError"
              /\ \A w \in {"team", "invite"} :
                    createInvite(jwt, t, NoOptions).outcome = "ok" =>
                       createInviteSaving(jwt, t, NoOptions, {w}).outcome = "InternalServerError"
              /\ \A w \in {"team", "user"} :
                    /\ leaveTeamOf(jwt, t).outcome = "ok" =>
                          leaveTeamSaving(jwt, t, {w}).outcome = "InternalServerError"
                    /\ deleteTeamOf(jwt, t).outcome = "ok" =>
                          deleteTeamSaving(jwt, t, {w}).outcome = "InternalServerError"
        /\ \A i \in InviteIDs, w \in WriteTargets :
              useInviteOf(jwt, i).outcome = "ok" =>
                 useInviteSaving(jwt, i, {w}).outcome = "InternalServerError"

\* C17: a request without an authorization header has its unauthorized
\* error given to next() once and nothing else happens for it: the service
\* method is not invoked, no response is sent and the handler raises no
\* further error.
C17_MissingHeaderRejectedOnce ==
    \A k \in DOMAIN requests :
        ~requests[k].authorization =>
            /\ requests[k].passed = <<"UnauthorizedError">>
            /\ ~requests[k].invoked
            /\ requests[k].responses = 0
            /\ requests[k].raised = "none"

\* C18: a successful updateTeam sets each field that the patch holds to the
\* patch's value for that field and leaves every other field of the team,
\* every other team, and every user and invite as they were.
C18_UpdateTeamAppliesPatch ==
    \A jwt \in ValidJWTs, t \in TeamIDs, d \in PatchInputs :
        LET r == updateTeam(jwt, t, d)
        IN  r.outcome = "ok" =>
              /\ r.teams =
                    [teams EXCEPT
                       ![t].name = IF d.name # NoName THEN d.name ELSE @,
                       ![t].twitter = IF d.twitter # "" THEN d.twitter ELSE @,
                       ![t].website = IF d.website # "" THEN d.website ELSE @]
              /\ r.userTeams = userTeams
              /\ r.invites = invites

\* C19: a successful createTeam by U adds exactly one team, whose owner is
\* U and whose member and invite lists are empty, and appends that team to
\* U's membership list; every other team, every other user's list and every
\* invite stay as they were.
C19_CreateTeamEffect ==
    \A jwt \in JWTs, n \in NameInputs :
        LET r == createTeam(jwt, n)
        IN  r.outcome = "ok" =>
              /\ verifyOK(jwt)
              /\ \E t \in DOMAIN r.teams \ DOMAIN teams :
                    /\ DOMAIN r.teams = DOMAIN teams \cup {t}
                    /\ r.teams[t].owner = jwt.id
                    /\ r.teams[t].members = <<>>
                    /\ r.teams[t].invites = <<>>
                    /\ r.userTeams = [userTeams EXCEPT ![jwt.id] = Append(@, t)]
              /\ \A t \in DOMAIN teams : r.teams[t] = teams[t]
              /\ r.invites = invites

\* a second team has just been created by a non-admin who owned one
\* already: it is the last entry of the owner's list, it has no members and
\* no invites, and the first team still has its member and its invite
C19_Witness ==
    \E t \in DOMAIN teams, t0 \in DOMAIN teams :
        /\ t0 # t
        /\ teams[t].owner \notin Admins
        /\ teams[t].members = <<>>
        /\ teams[t].invites = <<>>
        /\ userTeams[teams[t].owner] = <<t0, t>>
        /\ teams[t0].owner = teams[t].owner
        /\ teams[t0].members # <<>>
        /\ teams[t0].invites # <<>>

\* C20: in every reachable state no user occurs twice in an invite's uses
\* list, and no user occurs twice in a team's member list.
C20_UsesAreDistinct ==
    /\ \A i \in DOMAIN invites :
          \A j, k \in DOMAIN invites[i].uses :
             j # k => invites[i].uses[j] # invites[i].uses[k]
    /\ \A t \in DOMAIN teams :
          \A j, k \in DOMAIN teams[t].members :
             j # k => teams[t].members[j] # teams[t].members[k]

\* the teams that were created and deleted
DeletedTeams == {t \in TeamIDs : t < nextTeamID /\ t \notin DOMAIN teams}

\* C21: a successful deleteTeam(T) removes T's record; from then on T's
\* record never comes back, getTeam, updateTeam, updateOwner, createInvite
\* and leaveTeam on T fail and change nothing, and useInvite with an invite
\* made for T fails and adds no one.
C21_DeletedIsTerminal ==
    /\ [](\A jwt \in JWTs, t \in TeamIDs :
             deleteTeamOf(jwt, t).outcome = "ok" =>
                t \notin DOMAIN deleteTeamOf(jwt, t).teams)
    /\ [](\A jwt \in JWTs, t \in DeletedTeams :
             /\ getTeam(jwt, t).outcome # "ok"
             /\ \A d \in PatchInputs :
                   updateTeam(jwt, t, d).outcome # "ok" /\ SameStore(updateTeam(jwt, t, d))
             /\ \A n \in Users :
                   updateOwner(jwt, t, n).outcome # "ok" /\ SameStore(updateOwner(jwt, t, n))
             /\ \A o \in InviteOptionInputs :
                   createInvite(jwt, t, o).outcome # "ok" /\ SameStore(createInvite(jwt, t, o))
             /\ leaveTeamOf(jwt, t).outcome # "ok" /\ SameStore(leaveTeamOf(jwt, t))
             /\ \A i \in DOMAIN invites :
                   invites[i].team = t =>
                      useInviteOf(jwt, i).outcome # "ok" /\ SameStore(useInviteOf(jwt, i)))
    /\ [][\A t \in DeletedTeams : t \notin DOMAIN teams']_vars

\* a team that had a member and an invite has been deleted by its owner and
\* the invite is still stored: redeeming it is refused, and so are reading
\* the team and leaving it
C21_Witness ==
    \E t \in DeletedTeams, i \in DOMAIN invites, u \in Users \ Admins :
        /\ variant = "plain"
        /\ invites[i].team = t
        /\ invites[i].uses # <<>>
        /\ invites[i].createdByUser \notin Admins
        /\ useInvite(ValidJWT(u), i).outcome = "TypeError"
        /\ getTeam(ValidJWT(u), t).outcome = "NotFoundError"
        /\ leaveTeam(ValidJWT(u), t).outcome = "NotFoundError"

\* a leaveTeam(U, T) call and an updateOwner(T, newOwner = U) call by T's
\* non-admin owner, each holding a copy of T read while the caller of
\* updateOwner was T's owner and U was a member
BothReadBeforeWrites ==
    /\ calls.leaveTeam.pc \in {"read", "done"}
    /\ calls.updateOwner.pc \in {"read", "done"}
    /\ calls.leaveTeam.outcome \in {"pending", "ok", "ConflictError"}
    /\ calls.updateOwner.outcome \in {"pending", "ok", "BadRequestError"}
    /\ calls.leaveTeam.teamID = calls.updateOwner.teamID
    /\ calls.updateOwner.newOwnerID = calls.leaveTeam.jwt.id
    /\ calls.updateOwner.jwt.id # calls.leaveTeam.jwt.id
    /\ calls.updateOwner.jwt.id \notin Admins
    /\ calls.leaveTeam.team.owner = calls.updateOwner.jwt.id
    /\ calls.updateOwner.team.owner = calls.updateOwner.jwt.id
    /\ calls.leaveTeam.jwt.id \in Range(calls.leaveTeam.team.members)
    /\ calls.leaveTeam.jwt.id \in Range(calls.updateOwner.team.members)

\* C22: nothing excludes a leaveTeam(U, T) and an updateOwner(T, U) by T's
\* owner from each other: when each has read T before the other wrote, both
\* succeed in whichever order they write, and leaveTeam's save stores the
\* team as leaveTeam read it, owner included, over what updateOwner wrote.
C22_LeaveAndTransferNotExcluded ==
    /\ [](BothReadBeforeWrites =>
             /\ calls.leaveTeam.pc = "done" => calls.leaveTeam.outcome = "ok"
             /\ calls.updateOwner.pc = "done" => calls.updateOwner.outcome = "ok")
    /\ [][(/\ calls.leaveTeam.pc = "read"
            /\ calls'.leaveTeam.pc = "done"
            /\ calls'.leaveTeam.outcome = "ok")
           => teams'[calls.leaveTeam.teamID].owner = calls.leaveTeam.team.owner
       ]_vars

\* both calls have reported success, updateOwner having made U the owner,
\* and T's stored owner is again the former owner: the save of leaveTeam
\* has overwritten the save of updateOwner
C22_Witness ==
    /\ BothReadBeforeWrites
    /\ calls.leaveTeam.pc = "done" /\ calls.leaveTeam.outcome = "ok"
    /\ calls.updateOwner.pc = "done" /\ calls.updateOwner.outcome = "ok"
    /\ teams[calls.updateOwner.teamID].owner = calls.updateOwner.jwt.id
    /\ teams[calls.updateOwner.teamID].owner # calls.updateOwner.newOwnerID

\* C23: from every store state and for every call, deleteInvite, useInvite,
\* leaveTeam and deleteTeam of the logging-instrumented variant give the
\* same result or the same kind of error as those of the plain variant and
\* leave the same store.
C23_VariantsAgree ==
    \A jwt \in JWTs :
        /\ \A i \in InviteCodes :
              /\ deleteInviteLogged(jwt, i) = deleteInvite(jwt, i)
              /\ useInviteLogged(jwt, i) = useInvite(jwt, i)
        /\ \A t \in TeamIDs :
              /\ leaveTeamLogged(jwt, t) = leaveTeam(jwt, t)
              /\ deleteTeamLogged(jwt, t) = deleteTeam(jwt, t)

\* C24: in every reachable state, for every user U and existing team T, T
\* is in U's membership list exactly when U is T's owner or is in T's
\* member list.
C24_MembershipBothWays ==
    \A u \in Users, t \in DOMAIN teams :
        t \in Range(userTeams[u])
           <=> (teams[t].owner = u \/ u \in Range(teams[t].members))

\* what the store holds after the call r when each of its writes is applied
FullyApplied(r, full) ==
    r.teams = full.teams /\ r.userTeams = full.userTeams /\ r.invites = full.invites

\* C25: every call is all-or-nothing, also when the store rejects one of
\* its writes: a call that ends in an error leaves every team, user and
\* invite record as it was, and a call that reports success has applied
\* all of its writes.
C25_AllOrNothing ==
    \A jwt \in JWTs, failed \in FailedInputs :
        /\ \A n \in NameInputs :
              LET r == createTeamSaving(jwt, n, failed)
              IN  IF r.outcome = "ok" THEN FullyApplied(r, createTeam(jwt, n))
                  ELSE SameStore(r)
        /\ \A t \in TeamIDs :
              /\ \A n \in Users :
                    LET r == updateOwnerSaving(jwt, t, n, failed)
                    IN  IF r.outcome = "ok" THEN FullyApplied(r, updateOwner(jwt, t, n))
                        ELSE SameStore(r)
              /\ LET r == createInviteSaving(jwt, t, NoOptions, failed)
                 IN  IF r.outcome = "ok"
                     THEN FullyApplied(r, createInvite(jwt, t, NoOptions))
                     ELSE SameStore(r)
              /\ LET r == leaveTeamSaving(jwt, t, failed)
                 IN  IF r.outcome = "ok" THEN FullyApplied(r, leaveTeamOf(jwt, t))
                     ELSE SameStore(r)
              /\ LET r == deleteTeamSaving(jwt, t, failed)
                 IN  IF r.outcome = "ok" THEN FullyApplied(r, deleteTeamOf(jwt, t))
                     ELSE SameStore(r)
        /\ \A i \in InviteIDs :
              LET r == useInviteSaving(jwt, i, failed)
              IN  IF r.outcome = "ok" THEN FullyApplied(r, useInviteOf(jwt, i))
                  ELSE SameStore(r)

\* C26: in every reachable state every invite listed by a team exists and
\* the team of every existing invite exists.
C26_NoDanglingInvites ==
    /\ \A t \in DOMAIN teams : Range(teams[t].invites) \subseteq DOMAIN invites
    /\ \A i \in DOMAIN invites : invites[i].team \in DOMAIN teams

\* C27: getInvite with a code under which no invite is stored fails, for an
\* admin, a non-admin and an anonymous caller alike, with a not-found or
\* bad-request error: it neither succeeds nor fails with an untyped fault.
C27_GetInviteOfAbsentCode ==
    \A jwt \in ValidJWTs \cup {NoJWT}, i \in InviteCodes \ DOMAIN invites :
        getInvite(jwt, i).outcome \in {"NotFoundError", "BadRequestError"}
====
